---- MODULE Spec2Model ----
(***************************************************************************)
(* The elevator dispatch core of src/main.py: Button, ElevatorDoor and     *)
(* Elevator (press_floor_button, add_random_stop, move_to_floor,           *)
(* _get_next_floor, process_next_request).                                 *)
(*                                                                         *)
(* One caller drives one Elevator.  pc = "idle" is the state between two   *)
(* calls; a process_next_request call that found a floor runs through      *)
(* "move", "open", "opening", "clear", "close", "closing" (one step per    *)
(* assignment between the time.sleep calls) and is back at "idle" when it  *)
(* returns.  op, arg, ret and target record the last call, its argument,   *)
(* its result and the floor the dispatch policy selected.                  *)
(***************************************************************************)
EXTENDS Integers, Sequences, FiniteSets

\* ElevatorConfig.min_floors
MinFloors == 1
\* ElevatorConfig.max_floors, scaled down from 15
MaxFloors == 3
\* how many Buttons may be stuck at once
MaxStuck == 1
\* depth at which the interpreter stops a recursion (RecursionError)
RecursionLimit == 4

Floors == MinFloors..MaxFloors
\* the floors a caller may pass: every floor and one beyond each bound
FloorArgs == (MinFloors - 1)..(MaxFloors + 1)
\* Python's None where a floor is expected
NoFloor == MinFloors - 1

VARIABLES
    current_floor,      \* Elevator._current_floor
    direction,          \* Elevator._direction: "UP", "DOWN", "IDLE"
    door_state,         \* ElevatorDoor._state
    requested_floors,   \* Elevator._requested_floors
    is_pressed,         \* Button._is_pressed of each floor's Button
    is_stuck,           \* Button._is_stuck of each floor's Button
    pc,                 \* position of the caller inside process_next_request
    target,             \* next_floor while process_next_request runs; the floor _get_next_floor returned
    remaining,          \* iterations left of the loop of move_to_floor
    op,                 \* the last call made
    arg,                \* its floor argument (NoFloor when it has none)
    ret,                \* its result: "True", "False", "None", "Floor", an exception, "-" while running
    prev_direction,     \* the direction when the last call was made
    prev_door,          \* the door state when the last call was made
    visited,            \* the floors at which the car stopped, in order
    served,             \* number of process_next_request calls that returned True
    accepting           \* callers may still submit requests

elev == <<current_floor, direction, door_state, requested_floors, is_pressed, is_stuck>>
call == <<pc, target, remaining, op, arg, ret, prev_direction, prev_door>>
hist == <<visited, served, accepting>>
vars == <<current_floor, direction, door_state, requested_floors, is_pressed,
          is_stuck, pc, target, remaining, op, arg, ret, prev_direction, prev_door,
          visited, served, accepting>>

Min(S) == CHOOSE x \in S : \A y \in S : x <= y
Max(S) == CHOOSE x \in S : \A y \in S : x >= y

----------------------------------------------------------------------------
(* Button *)

ButtonPressIgnoresStuck(stuck, pressed) == [ok |-> TRUE, pressed |-> TRUE]
ButtonPressNoLatch(stuck, pressed) == [ok |-> ~stuck, pressed |-> pressed]
\* Button.press: the result and the new pressed flag
ButtonPress(stuck, pressed) ==
    IF stuck THEN [ok |-> FALSE, pressed |-> pressed]
             ELSE [ok |-> TRUE, pressed |-> TRUE]

----------------------------------------------------------------------------
(* Elevator._get_next_floor *)

FloorsAboveInclusive(R, c) == {f \in R : f >= c}
FloorsAboveBelowTop(R, c) == {f \in R : f > c /\ f < MaxFloors}
FloorsBelowInclusive(R, c) == {f \in R : f <= c}
\* [f for f in self._requested_floors if f > self._current_floor]
FloorsAbove(R, c) == {f \in R : f > c}

\* [f for f in self._requested_floors if f < self._current_floor]
FloorsBelow(R, c) == {f \in R : f < c}

FarthestAbove(S) == Max(S)
\* return min(floors_in_direction)
NearestAbove(S) == Min(S)

FarthestBelow(S) == Min(S)
\* return max(floors_in_direction)
NearestBelow(S) == Max(S)

IdleResolveAlwaysUp(R, c) == "UP"
\* first = min(self._requested_floors);
\* Direction.UP if first > self._current_floor else Direction.DOWN
IdleResolve(R, c) == IF Min(R) > c THEN "UP" ELSE "DOWN"

\* The dispatch policy as the code computes it: the floor it returns (NoFloor
\* for None), the direction it leaves behind, and whether the recursion ran
\* into the interpreter's limit.
RECURSIVE GetNextFloor(_, _, _, _)
GetNextFloor(d, c, R, depth) ==
    IF depth > RecursionLimit
    THEN [floor |-> NoFloor, dir |-> d, raised |-> TRUE]
    ELSE IF R = {}
    THEN [floor |-> NoFloor, dir |-> d, raised |-> FALSE]
    ELSE IF d = "UP"
    THEN IF FloorsAbove(R, c) = {}
         THEN GetNextFloor("DOWN", c, R, depth + 1)
         ELSE [floor |-> NearestAbove(FloorsAbove(R, c)), dir |-> d, raised |-> FALSE]
    ELSE IF d = "DOWN"
    THEN IF FloorsBelow(R, c) = {}
         THEN GetNextFloor("UP", c, R, depth + 1)
         ELSE [floor |-> NearestBelow(FloorsBelow(R, c)), dir |-> d, raised |-> FALSE]
    ELSE GetNextFloor(IdleResolve(R, c), c, R, depth + 1)

RequestsAfterPolicyTaken(R, t) == R \ {t}
\* the RequestSet after the policy returned floor t: the policy reads
\* self._requested_floors and builds new lists from it, it assigns nothing to it
RequestsAfterPolicy(R, t) == R

----------------------------------------------------------------------------
(* Elevator *)

InBoundsOffByOne(f) == MinFloors <= f /\ f <= MaxFloors + 1
\* self._config.min_floors <= floor <= self._config.max_floors
InBounds(f) == MinFloors <= f /\ f <= MaxFloors

InitialDirectionAlwaysUp(floor, c) == "UP"
\* Direction.UP if floor > self._current_floor else Direction.DOWN
InitialDirection(floor, c) == IF floor > c THEN "UP" ELSE "DOWN"

BelowCapInclusive(R) == Cardinality(R) <= MaxFloors - MinFloors
\* len(self._requested_floors) < (self._config.max_floors - self._config.min_floors)
BelowCap(R) == Cardinality(R) < MaxFloors - MinFloors

StepFloorAlwaysUp(d, c) == c + 1
StepFloorAlwaysDown(d, c) == c - 1
\* one pass of the loop body of move_to_floor
StepFloor(d, c) == IF d = "UP" THEN c + 1 ELSE c - 1

KeepDirection(d) == d
\* self._direction = Direction.IDLE when the policy returned None
IdleDirection(d) == "IDLE"

ClearStepKeepsButton(R, pressed, t) ==
    [requested |-> R \ {t}, pressed |-> pressed, error |-> "None"]
ClearStepSkipped(R, pressed, t) ==
    [requested |-> R, pressed |-> pressed, error |-> "None"]
ClearStepUnguarded(R, pressed, t) ==
    [requested |-> R \ {t},
     pressed |-> [pressed EXCEPT ![t] = FALSE],
     error |-> IF t \in R THEN "None" ELSE "KeyError"]
\* "Clear request for this floor": the RequestSet and the Buttons after it,
\* and the exception it raises ("None" when it raises none)
ClearStep(R, pressed, t) ==
    IF t \in R
    THEN [requested |-> R \ {t},
          pressed |-> [pressed EXCEPT ![t] = FALSE],
          error |-> "None"]
    ELSE [requested |-> R, pressed |-> pressed, error |-> "None"]

Init ==
    /\ current_floor = MinFloors
    /\ direction = "IDLE"
    /\ door_state = "CLOSED"
    /\ requested_floors = {}
    /\ is_pressed = [f \in Floors |-> FALSE]
    /\ is_stuck = [f \in Floors |-> FALSE]
    /\ pc = "idle"
    /\ target = NoFloor
    /\ remaining = 0
    /\ op = "init"
    /\ arg = NoFloor
    /\ ret = "-"
    /\ prev_direction = "IDLE"
    /\ prev_door = "CLOSED"
    /\ visited = << >>
    /\ served = 0
    /\ accepting = TRUE

\* Elevator.press_floor_button(floor)
PressFloorButton(floor) ==
    /\ pc = "idle"
    /\ op' = "press_floor_button"
    /\ prev_direction' = direction
    /\ prev_door' = door_state
    /\ arg' = floor
    /\ IF ~InBounds(floor)
       THEN /\ ret' = "False"
            /\ UNCHANGED <<is_pressed, requested_floors, direction>>
       ELSE IF floor \notin DOMAIN is_pressed
       THEN /\ ret' = "KeyError"
            /\ UNCHANGED <<is_pressed, requested_floors, direction>>
       ELSE LET b == ButtonPress(is_stuck[floor], is_pressed[floor]) IN
            /\ is_pressed' = [is_pressed EXCEPT ![floor] = b.pressed]
            /\ IF b.ok
               THEN /\ requested_floors' = requested_floors \cup {floor}
                    /\ direction' = IF direction = "IDLE"
                                    THEN InitialDirection(floor, current_floor)
                                    ELSE direction
                    /\ ret' = "True"
               ELSE /\ ret' = "False"
                    /\ UNCHANGED <<requested_floors, direction>>
    /\ target' = NoFloor
    /\ UNCHANGED <<current_floor, door_state, is_stuck, pc, remaining>>

\* elevator.get_button(floor).press()
PressButton(floor) ==
    /\ pc = "idle"
    /\ floor \in Floors
    /\ op' = "Button.press"
    /\ prev_direction' = direction
    /\ prev_door' = door_state
    /\ arg' = floor
    /\ LET b == ButtonPress(is_stuck[floor], is_pressed[floor]) IN
            /\ is_pressed' = [is_pressed EXCEPT ![floor] = b.pressed]
            /\ ret' = IF b.ok THEN "True" ELSE "False"
    /\ target' = NoFloor
    /\ UNCHANGED <<current_floor, direction, door_state, requested_floors,
                   is_stuck, pc, remaining>>

\* elevator.get_button(floor).set_stuck(stuck)
SetStuck(floor, stuck) ==
    /\ pc = "idle"
    /\ floor \in Floors
    /\ is_stuck[floor] # stuck
    /\ is_stuck' = [is_stuck EXCEPT ![floor] = stuck]
    /\ Cardinality({f \in Floors : is_stuck'[f]}) <= MaxStuck
    /\ op' = "set_stuck"
    /\ prev_direction' = direction
    /\ prev_door' = door_state
    /\ arg' = NoFloor
    /\ ret' = "None"
    /\ target' = NoFloor
    /\ UNCHANGED <<current_floor, direction, door_state, requested_floors,
                   is_pressed, pc, remaining>>

\* Elevator.add_random_stop(), random_floor being the outcome of random.randint
AddRandomStop(random_floor) ==
    /\ pc = "idle"
    /\ random_floor \in Floors
    /\ op' = "add_random_stop"
    /\ prev_direction' = direction
    /\ prev_door' = door_state
    /\ ret' = "None"
    /\ IF BelowCap(requested_floors)
       THEN /\ arg' = random_floor
            /\ requested_floors' = IF random_floor # current_floor
                                   THEN requested_floors \cup {random_floor}
                                   ELSE requested_floors
       ELSE /\ arg' = NoFloor
            /\ UNCHANGED requested_floors
    /\ target' = NoFloor
    /\ UNCHANGED <<current_floor, direction, door_state, is_pressed, is_stuck,
                   pc, remaining>>

\* Elevator._get_next_floor() called on its own, as
\* InteractiveElevatorMode._process_pending_requests does
GetNextFloorCall ==
    /\ pc = "idle"
    /\ op' = "_get_next_floor"
    /\ prev_direction' = direction
    /\ prev_door' = door_state
    /\ arg' = NoFloor
    /\ LET r == GetNextFloor(direction, current_floor, requested_floors, 1) IN
        IF r.raised
        THEN /\ ret' = "RecursionError"
             /\ direction' \in {"UP", "DOWN"}
             /\ target' = NoFloor
        ELSE /\ ret' = IF r.floor = NoFloor THEN "None" ELSE "Floor"
             /\ direction' = r.dir
             /\ target' = r.floor
    /\ requested_floors' = RequestsAfterPolicy(requested_floors, target')
    /\ UNCHANGED <<current_floor, door_state, is_pressed, is_stuck, pc, remaining>>

\* Elevator.process_next_request(): the call, up to the first time.sleep of
\* move_to_floor (or to its return when there is nothing to move to)
ProcessNextRequest ==
    /\ pc = "idle"
    /\ op' = "process_next_request"
    /\ prev_direction' = direction
    /\ prev_door' = door_state
    /\ arg' = NoFloor
    /\ LET r == GetNextFloor(direction, current_floor, requested_floors, 1) IN
        IF r.raised
        THEN /\ ret' = "RecursionError"
             /\ direction' \in {"UP", "DOWN"}
             /\ target' = NoFloor
             /\ UNCHANGED <<pc, remaining>>
        ELSE IF r.floor = NoFloor
        THEN /\ ret' = "False"
             /\ direction' = IdleDirection(direction)
             /\ target' = NoFloor
             /\ UNCHANGED <<pc, remaining>>
        ELSE /\ ret' = "-"
             /\ target' = r.floor
             /\ direction' = IF r.floor = current_floor THEN r.dir
                             ELSE IF r.floor > current_floor THEN "UP" ELSE "DOWN"
             /\ remaining' = IF r.floor >= current_floor
                             THEN r.floor - current_floor
                             ELSE current_floor - r.floor
             /\ pc' = IF remaining' = 0 THEN "open" ELSE "move"
    /\ UNCHANGED <<current_floor, door_state, requested_floors, is_pressed, is_stuck>>

\* one iteration of the loop of move_to_floor
MoveOneFloor ==
    /\ pc = "move"
    /\ remaining > 0
    /\ current_floor' = StepFloor(direction, current_floor)
    /\ remaining' = remaining - 1
    /\ pc' = IF remaining' = 0 THEN "open" ELSE "move"
    /\ UNCHANGED <<direction, door_state, requested_floors, is_pressed, is_stuck,
                   target, op, arg, ret, prev_direction, prev_door>>

\* if not self._door.is_open: self._door.open(), up to its time.sleep
DoorOpenBegin ==
    /\ pc = "open"
    /\ IF door_state = "OPEN"
       THEN /\ pc' = "clear"
            /\ UNCHANGED door_state
       ELSE /\ door_state' = "OPENING"
            /\ pc' = "opening"
    /\ UNCHANGED <<current_floor, direction, requested_floors, is_pressed, is_stuck,
                   target, remaining, op, arg, ret, prev_direction, prev_door>>

\* ElevatorDoor.open after its time.sleep
DoorOpenEnd ==
    /\ pc = "opening"
    /\ door_state' = "OPEN"
    /\ pc' = "clear"
    /\ UNCHANGED <<current_floor, direction, requested_floors, is_pressed, is_stuck,
                   target, remaining, op, arg, ret, prev_direction, prev_door>>

\* "Clear request for this floor"
ClearRequest ==
    /\ pc = "clear"
    /\ LET r == ClearStep(requested_floors, is_pressed, target) IN
            /\ is_pressed' = r.pressed
            /\ requested_floors' = r.requested
            /\ IF r.error = "None"
               THEN pc' = "close" /\ UNCHANGED <<ret, target>>
               ELSE pc' = "idle" /\ ret' = r.error /\ target' = NoFloor
    /\ UNCHANGED <<current_floor, direction, door_state, is_stuck,
                   remaining, op, arg, prev_direction, prev_door>>

\* if not self._door.is_closed: self._door.close(), up to its time.sleep
DoorCloseBegin ==
    /\ pc = "close"
    /\ IF door_state = "CLOSED"
       THEN /\ pc' = "idle"
            /\ ret' = "True"
            /\ target' = NoFloor
            /\ UNCHANGED door_state
       ELSE /\ door_state' = "CLOSING"
            /\ pc' = "closing"
            /\ UNCHANGED <<ret, target>>
    /\ UNCHANGED <<current_floor, direction, requested_floors, is_pressed, is_stuck,
                   remaining, op, arg, prev_direction, prev_door>>

\* ElevatorDoor.close after its time.sleep, and return True
DoorCloseEnd ==
    /\ pc = "closing"
    /\ door_state' = "CLOSED"
    /\ pc' = "idle"
    /\ ret' = "True"
    /\ target' = NoFloor
    /\ UNCHANGED <<current_floor, direction, requested_floors, is_pressed, is_stuck,
                   remaining, op, arg, prev_direction, prev_door>>

Press == \E floor \in FloorArgs : PressFloorButton(floor) /\ UNCHANGED hist
PressDirect == \E floor \in Floors : PressButton(floor) /\ UNCHANGED hist
Stick == \E floor \in Floors, stuck \in BOOLEAN : SetStuck(floor, stuck) /\ UNCHANGED hist
RandomStop == \E floor \in Floors : AddRandomStop(floor) /\ UNCHANGED hist
Preview == GetNextFloorCall /\ UNCHANGED hist
Serve == ProcessNextRequest /\ UNCHANGED hist
Move == MoveOneFloor /\ UNCHANGED hist
OpenBegin == DoorOpenBegin /\ UNCHANGED hist
OpenEnd == DoorOpenEnd /\ UNCHANGED hist
Clear == ClearRequest /\ UNCHANGED hist
CloseBegin == DoorCloseBegin /\ UNCHANGED hist
CloseEnd == DoorCloseEnd /\ UNCHANGED hist

Next ==
    \/ Press
    \/ PressDirect
    \/ Stick
    \/ RandomStop
    \/ Preview
    \/ Serve
    \/ Move
    \/ OpenBegin
    \/ OpenEnd
    \/ Clear
    \/ CloseBegin
    \/ CloseEnd

Spec == Init /\ [][Next]_vars

----------------------------------------------------------------------------
(* The service cycle from an idle car: floors above the car are pressed,   *)
(* then process_next_request is called until nothing is pending.  visited  *)
(* and served record where the car stopped and how many calls serviced a   *)
(* stop.                                                                   *)

InitOrder ==
    /\ current_floor \in Floors
    /\ direction = "IDLE"
    /\ door_state = "CLOSED"
    /\ requested_floors = {}
    /\ is_pressed = [f \in Floors |-> FALSE]
    /\ is_stuck \in {s \in [Floors -> BOOLEAN] :
                        Cardinality({f \in Floors : s[f]}) <= MaxStuck}
    /\ pc = "idle"
    /\ target = NoFloor
    /\ remaining = 0
    /\ op = "init"
    /\ arg = NoFloor
    /\ ret = "-"
    /\ prev_direction = "IDLE"
    /\ prev_door = "CLOSED"
    /\ visited = << >>
    /\ served = 0
    /\ accepting = TRUE

PressAbove ==
    \E floor \in Floors :
        /\ floor > current_floor
        /\ op \in {"init", "press_floor_button"}
        /\ PressFloorButton(floor)
        /\ UNCHANGED hist
ServeNext == ProcessNextRequest /\ UNCHANGED hist
Travel == MoveOneFloor /\ UNCHANGED hist
Stop ==
    /\ DoorOpenBegin
    /\ visited' = Append(visited, current_floor)
    /\ UNCHANGED <<served, accepting>>
Opened == DoorOpenEnd /\ UNCHANGED hist
Cleared == ClearRequest /\ UNCHANGED hist
Closing ==
    /\ DoorCloseBegin
    /\ served' = IF pc' = "idle" THEN served + 1 ELSE served
    /\ UNCHANGED <<visited, accepting>>
Closed ==
    /\ DoorCloseEnd
    /\ served' = served + 1
    /\ UNCHANGED <<visited, accepting>>

NextOrder ==
    \/ PressAbove
    \/ ServeNext
    \/ Travel
    \/ Stop
    \/ Opened
    \/ Cleared
    \/ Closing
    \/ Closed

SpecOrder == InitOrder /\ [][NextOrder]_vars

----------------------------------------------------------------------------
(* ElevatorDoor called directly, and calls cut short.  open, close and     *)
(* force_open wait in time.sleep between their two assignments ("door_open",*)
(* "door_close", "door_force").  A KeyboardInterrupt raised in a           *)
(* time.sleep ends the call that is waiting there and leaves the state as  *)
(* that call had it, so a later call can find the door Opening or Closing. *)

OpenStartJumps(state) == "OPEN"
\* if self._state == DoorState.OPEN: return; self._state = DoorState.OPENING
OpenStart(state) == IF state = "OPEN" THEN state ELSE "OPENING"

\* if self._state == DoorState.CLOSED: return; self._state = DoorState.CLOSING
CloseStart(state) == IF state = "CLOSED" THEN state ELSE "CLOSING"

CanForceOpenUnlessOpen(state) == state # "OPEN"
CanForceOpenAlways(state) == TRUE
CanForceOpenUnlessClosed(state) == state # "CLOSED"
\* if self._state == DoorState.CLOSING
CanForceOpen(state) == state = "CLOSING"

\* what a call on the door leaves alone
DoorCallFrame ==
    /\ prev_direction' = direction
    /\ prev_door' = door_state
    /\ arg' = NoFloor
    /\ target' = NoFloor
    /\ UNCHANGED <<current_floor, direction, requested_floors, is_pressed,
                   is_stuck, remaining>>

DoorReturnFrame ==
    UNCHANGED <<current_floor, direction, requested_floors, is_pressed, is_stuck,
                target, remaining, op, arg, prev_direction, prev_door>>

\* elevator.door.open(), up to its time.sleep
OpenDoor ==
    /\ pc = "idle"
    /\ op' = "door.open"
    /\ door_state' = OpenStart(door_state)
    /\ IF door_state = "OPEN"
       THEN pc' = "idle" /\ ret' = "None"
       ELSE pc' = "door_open" /\ ret' = "-"
    /\ DoorCallFrame

\* ElevatorDoor.open after its time.sleep
OpenDoorDone ==
    /\ pc = "door_open"
    /\ door_state' = "OPEN"
    /\ pc' = "idle"
    /\ ret' = "None"
    /\ DoorReturnFrame

\* elevator.door.close(), up to its time.sleep
CloseDoor ==
    /\ pc = "idle"
    /\ op' = "door.close"
    /\ door_state' = CloseStart(door_state)
    /\ IF door_state = "CLOSED"
       THEN pc' = "idle" /\ ret' = "None"
       ELSE pc' = "door_close" /\ ret' = "-"
    /\ DoorCallFrame

\* ElevatorDoor.close after its time.sleep
CloseDoorDone ==
    /\ pc = "door_close"
    /\ door_state' = "CLOSED"
    /\ pc' = "idle"
    /\ ret' = "None"
    /\ DoorReturnFrame

\* elevator.door.force_open(), up to its time.sleep or to return False
ForceOpen ==
    /\ pc = "idle"
    /\ op' = "door.force_open"
    /\ IF CanForceOpen(door_state)
       THEN door_state' = "OPENING" /\ pc' = "door_force" /\ ret' = "-"
       ELSE door_state' = door_state /\ pc' = "idle" /\ ret' = "False"
    /\ DoorCallFrame

\* ElevatorDoor.force_open after its time.sleep
ForceOpenDone ==
    /\ pc = "door_force"
    /\ door_state' = "OPEN"
    /\ pc' = "idle"
    /\ ret' = "True"
    /\ DoorReturnFrame

\* the pc values at which the caller is inside time.sleep
Sleeping == {"move", "opening", "closing", "door_open", "door_close", "door_force"}

\* KeyboardInterrupt in time.sleep: the call ends there
Interrupt ==
    /\ pc \in Sleeping
    /\ pc' = "idle"
    /\ ret' = "KeyboardInterrupt"
    /\ target' = NoFloor
    /\ remaining' = 0
    /\ UNCHANGED <<current_floor, direction, door_state, requested_floors,
                   is_pressed, is_stuck, op, arg, prev_direction, prev_door>>

DoorOpens == OpenDoor /\ UNCHANGED hist
DoorOpened == OpenDoorDone /\ UNCHANGED hist
DoorCloses == CloseDoor /\ UNCHANGED hist
DoorClosed == CloseDoorDone /\ UNCHANGED hist
DoorForced == ForceOpen /\ UNCHANGED hist
DoorForcedOpen == ForceOpenDone /\ UNCHANGED hist
Interrupted == Interrupt /\ UNCHANGED hist

NextDoor ==
    \/ Press
    \/ Serve
    \/ Move
    \/ OpenBegin
    \/ OpenEnd
    \/ Clear
    \/ CloseBegin
    \/ CloseEnd
    \/ DoorOpens
    \/ DoorOpened
    \/ DoorCloses
    \/ DoorClosed
    \/ DoorForced
    \/ DoorForcedOpen
    \/ Interrupted

SpecDoor == Init /\ [][NextDoor]_vars

----------------------------------------------------------------------------
(* The release-and-remove step of servicing taken on its own, for any      *)
(* floor of the building: as process_next_request has it ("Clear request   *)
(* for this floor") and as the interactive mode has it ("Release button    *)
(* and clear request").  visited holds the floor of the last such step, and *)
(* holds it twice when the step before it was for the same floor.          *)

\* button.release(); self._elevator._requested_floors.discard(target_floor)
ReleaseAndDiscard(R, pressed, t) ==
    [requested |-> R \ {t},
     pressed |-> [pressed EXCEPT ![t] = FALSE],
     error |-> "None"]

\* visited after a release-and-remove step for floor
Resolved(floor) ==
    IF visited # << >> /\ visited[1] = floor THEN <<floor, floor>> ELSE <<floor>>

\* process_next_request's step for next_floor = floor
ClearRequestFor(floor) ==
    /\ pc = "idle"
    /\ op' = "clear_request"
    /\ arg' = floor
    /\ prev_direction' = direction
    /\ prev_door' = door_state
    /\ LET r == ClearStep(requested_floors, is_pressed, floor) IN
            /\ requested_floors' = r.requested
            /\ is_pressed' = r.pressed
            /\ ret' = r.error
    /\ target' = NoFloor
    /\ UNCHANGED <<current_floor, direction, door_state, is_stuck, pc, remaining>>

\* the interactive mode's step for target_floor = floor, with its
\* "Set direction to IDLE if no more requests"
ReleaseAndClear(floor) ==
    /\ pc = "idle"
    /\ op' = "release_and_clear"
    /\ arg' = floor
    /\ prev_direction' = direction
    /\ prev_door' = door_state
    /\ LET r == ReleaseAndDiscard(requested_floors, is_pressed, floor) IN
            /\ requested_floors' = r.requested
            /\ is_pressed' = r.pressed
            /\ ret' = r.error
            /\ direction' = IF r.requested = {} THEN "IDLE" ELSE direction
    /\ target' = NoFloor
    /\ UNCHANGED <<current_floor, door_state, is_stuck, pc, remaining>>

ResolveCore ==
    \E floor \in Floors :
        ClearRequestFor(floor) /\ visited' = Resolved(floor) /\ UNCHANGED <<served, accepting>>
ResolveInteractive ==
    \E floor \in Floors :
        ReleaseAndClear(floor) /\ visited' = Resolved(floor) /\ UNCHANGED <<served, accepting>>
PressBetween ==
    \E floor \in FloorArgs :
        PressFloorButton(floor) /\ visited' = << >> /\ UNCHANGED <<served, accepting>>
ServeBetween ==
    ProcessNextRequest /\ visited' = << >> /\ UNCHANGED <<served, accepting>>

NextResolve ==
    \/ PressBetween
    \/ ServeBetween
    \/ Move
    \/ OpenBegin
    \/ OpenEnd
    \/ Clear
    \/ CloseBegin
    \/ CloseEnd
    \/ ResolveCore
    \/ ResolveInteractive

SpecResolve == Init /\ [][NextResolve]_vars

----------------------------------------------------------------------------
(* The service loop: requests are submitted while accepting holds; once it  *)
(* no longer does, only process_next_request is called, again and again,   *)
(* as in "while self._elevator.requested_floors".  Every time.sleep        *)
(* returns and the loop always makes its next call, hence the weak         *)
(* fairness of each step of the service.                                   *)

PressWhileAccepting == accepting /\ Press
RandomStopWhileAccepting == accepting /\ RandomStop

\* the last request has been submitted
StopAccepting ==
    /\ accepting
    /\ accepting' = FALSE
    /\ UNCHANGED <<elev, call, visited, served>>

NextLive ==
    \/ PressWhileAccepting
    \/ RandomStopWhileAccepting
    \/ StopAccepting
    \/ Serve
    \/ Move
    \/ OpenBegin
    \/ OpenEnd
    \/ Clear
    \/ CloseBegin
    \/ CloseEnd

FairService ==
    /\ WF_vars(Serve)
    /\ WF_vars(Move)
    /\ WF_vars(OpenBegin)
    /\ WF_vars(OpenEnd)
    /\ WF_vars(Clear)
    /\ WF_vars(CloseBegin)
    /\ WF_vars(CloseEnd)

SpecLive == Init /\ [][NextLive]_vars /\ FairService

----------------------------------------------------------------------------
(* Any interleaving of press_floor_button, add_random_stop and             *)
(* process_next_request.  visited holds the floor the car left for its     *)
(* last service, so that the direction in which it travelled there can be  *)
(* compared with the direction in which it leaves for the next one.        *)

\* process_next_request, remembering the floor the car leaves
ServeFrom ==
    /\ ProcessNextRequest
    /\ visited' = IF ret' = "-" THEN <<current_floor>> ELSE visited
    /\ UNCHANGED <<served, accepting>>

NextScan ==
    \/ Press
    \/ RandomStop
    \/ ServeFrom
    \/ Move
    \/ OpenBegin
    \/ OpenEnd
    \/ Clear
    \/ CloseBegin
    \/ CloseEnd

SpecScan == Init /\ [][NextScan]_vars

----------------------------------------------------------------------------
(* The dispatch policy evaluated on its own between requests and services, *)
(* as the interactive mode does before it moves the car.                   *)

NextPolicy ==
    \/ Press
    \/ RandomStop
    \/ Preview
    \/ Serve
    \/ Move
    \/ OpenBegin
    \/ OpenEnd
    \/ Clear
    \/ CloseBegin
    \/ CloseEnd

SpecPolicy == Init /\ [][NextPolicy]_vars

----------------------------------------------------------------------------
(* Elevator.move_to_floor called on its own, for any floor of the          *)
(* building, between requests and services.  pc = "moving" while its loop  *)
(* runs; visited holds the floor the car was at when it was called.        *)

\* abs(target_floor - self._current_floor)
Distance(a, b) == IF a >= b THEN a - b ELSE b - a

\* Elevator.move_to_floor(target_floor), up to the first time.sleep of its
\* loop (or to its return when the car is there already)
MoveToFloor(target_floor) ==
    /\ pc = "idle"
    /\ op' = "move_to_floor"
    /\ arg' = target_floor
    /\ prev_direction' = direction
    /\ prev_door' = door_state
    /\ IF target_floor = current_floor
       THEN /\ ret' = "None"
            /\ target' = NoFloor
            /\ UNCHANGED <<direction, pc, remaining>>
       ELSE /\ ret' = "-"
            /\ target' = target_floor
            /\ direction' = IF target_floor > current_floor THEN "UP" ELSE "DOWN"
            /\ remaining' = Distance(target_floor, current_floor)
            /\ pc' = "moving"
    /\ UNCHANGED <<current_floor, door_state, requested_floors, is_pressed, is_stuck>>

\* one iteration of the loop of move_to_floor, and its return after the last
MoveToFloorStep ==
    /\ pc = "moving"
    /\ remaining > 0
    /\ current_floor' = StepFloor(direction, current_floor)
    /\ remaining' = remaining - 1
    /\ IF remaining' = 0
       THEN pc' = "idle" /\ ret' = "None" /\ target' = NoFloor
       ELSE UNCHANGED <<pc, ret, target>>
    /\ UNCHANGED <<direction, door_state, requested_floors, is_pressed, is_stuck,
                   op, arg, prev_direction, prev_door>>

MoveFrom ==
    \E target_floor \in Floors :
        /\ MoveToFloor(target_floor)
        /\ visited' = <<current_floor>>
        /\ UNCHANGED <<served, accepting>>
MoveOn == MoveToFloorStep /\ UNCHANGED hist

NextMove ==
    \/ Press
    \/ Serve
    \/ Move
    \/ OpenBegin
    \/ OpenEnd
    \/ Clear
    \/ CloseBegin
    \/ CloseEnd
    \/ MoveFrom
    \/ MoveOn

SpecMove == Init /\ [][NextMove]_vars

----------------------------------------------------------------------------
(* One caller whose calls all run to completion.  force_open is taken from *)
(* its call to its return in one step: the caller sees only the state it   *)
(* leaves.  visited holds the floor at which force_open was last called.   *)

\* elevator.door.force_open(), from the call to the return
ForceOpenCall ==
    /\ pc = "idle"
    /\ op' = "door.force_open"
    /\ IF CanForceOpen(door_state)
       THEN door_state' = "OPEN" /\ ret' = "True"
       ELSE door_state' = door_state /\ ret' = "False"
    /\ pc' = pc
    /\ DoorCallFrame

DoorForceTried ==
    /\ ForceOpenCall
    /\ visited' = <<current_floor>>
    /\ UNCHANGED <<served, accepting>>

\* press_floor_button, process_next_request, add_random_stop, door.force_open
NextForce ==
    \/ Press
    \/ RandomStop
    \/ Serve
    \/ Move
    \/ OpenBegin
    \/ OpenEnd
    \/ Clear
    \/ CloseBegin
    \/ CloseEnd
    \/ DoorForceTried

SpecForce == Init /\ [][NextForce]_vars

\* the same, and door.open and door.close
NextSerial ==
    \/ Press
    \/ RandomStop
    \/ Serve
    \/ Move
    \/ OpenBegin
    \/ OpenEnd
    \/ Clear
    \/ CloseBegin
    \/ CloseEnd
    \/ DoorForceTried
    \/ DoorOpens
    \/ DoorOpened
    \/ DoorCloses
    \/ DoorClosed

SpecSerial == Init /\ [][NextSerial]_vars

----------------------------------------------------------------------------
(* Properties *)

\* a step that is a call of the dispatch policy, alone or from process_next_request
DispatchStep ==
    /\ pc = "idle"
    /\ op' \in {"_get_next_floor", "process_next_request"}

\* C1: between operations the direction is Idle if and only if the RequestSet
\* is empty.
DirectionIdleIffNoRequests ==
    pc = "idle" => (direction = "IDLE" <=> requested_floors = {})

\* C2: between operations every floor of the RequestSet has its Button pressed.
RequestedFloorsArePressed ==
    pc = "idle" => \A f \in requested_floors : is_pressed[f]

\* C3: evaluating the dispatch policy always terminates with a floor or with
\* "no pending requests"; it never recurses without end.
DispatchNeverRaises ==
    op \in {"_get_next_floor", "process_next_request"} => ret # "RecursionError"

\* C4: going Up with a pending floor above the car, the policy returns the
\* lowest pending floor above the car and the direction stays Up; going Down
\* with a pending floor below, the highest pending floor below, and Down.
ScanSelection ==
    [][DispatchStep =>
        /\ (direction = "UP" /\ \E f \in requested_floors : f > current_floor) =>
              /\ ret' \in {"Floor", "-"}
              /\ target' \in requested_floors
              /\ target' > current_floor
              /\ \A g \in requested_floors : g > current_floor => target' <= g
              /\ direction' = "UP"
        /\ (direction = "DOWN" /\ \E f \in requested_floors : f < current_floor) =>
              /\ ret' \in {"Floor", "-"}
              /\ target' \in requested_floors
              /\ target' < current_floor
              /\ \A g \in requested_floors : g < current_floor => target' >= g
              /\ direction' = "DOWN"
    ]_vars

\* the policy, called while going Up with pending floors on both sides of the
\* car, returned the one above
ScanSelectionWitness ==
    /\ op = "_get_next_floor"
    /\ prev_direction = "UP"
    /\ ret = "Floor"
    /\ target > current_floor
    /\ direction = "UP"
    /\ \E g \in requested_floors : g < current_floor

\* C5: going Up with pending floors only below the car, the policy returns the
\* highest pending floor below and leaves the direction Down; going Down with
\* pending floors only above, the lowest pending floor above, and Up.
Reversal ==
    [][DispatchStep =>
        /\ ( /\ direction = "UP"
             /\ \A f \in requested_floors : f <= current_floor
             /\ \E f \in requested_floors : f < current_floor ) =>
              /\ ret' \in {"Floor", "-"}
              /\ target' \in requested_floors
              /\ target' < current_floor
              /\ \A g \in requested_floors : g < current_floor => target' >= g
              /\ direction' = "DOWN"
        /\ ( /\ direction = "DOWN"
             /\ \A f \in requested_floors : f >= current_floor
             /\ \E f \in requested_floors : f > current_floor ) =>
              /\ ret' \in {"Floor", "-"}
              /\ target' \in requested_floors
              /\ target' > current_floor
              /\ \A g \in requested_floors : g > current_floor => target' <= g
              /\ direction' = "UP"
    ]_vars

\* the policy, called while going Up with two pending floors, both below the
\* car, returned the higher one and left the direction Down
ReversalWitness ==
    /\ op = "_get_next_floor"
    /\ prev_direction = "UP"
    /\ ret = "Floor"
    /\ direction = "DOWN"
    /\ target < current_floor
    /\ \A f \in requested_floors : f < current_floor
    /\ \E g \in requested_floors : g < target

\* C6: from an idle car, after presses of floors above it, the calls of
\* process_next_request stop at the pending floors in strictly ascending
\* order, one floor per call: the stops so far ascend, every floor still
\* pending lies above all of them, and between calls there are as many stops
\* as calls that returned True, none of them still pending.
ServiceOrder ==
    /\ \A i, j \in 1..Len(visited) : i < j => visited[i] < visited[j]
    /\ \A i \in 1..Len(visited) : \A f \in requested_floors : visited[i] <= f
    /\ pc = "idle" =>
          /\ Len(visited) = served
          /\ \A i \in 1..Len(visited) : visited[i] \notin requested_floors

\* two floors were serviced and nothing is pending
ServiceOrderWitness ==
    /\ pc = "idle"
    /\ op = "process_next_request"
    /\ ret = "True"
    /\ served = 2
    /\ Len(visited) = 2
    /\ requested_floors = {}

\* C7: when the call of process_next_request that serviced the last pending
\* request has returned, the direction is Idle and nothing is pending.
IdleAfterLastService ==
    (pc = "idle" /\ op = "process_next_request" /\ ret = "True"
        /\ requested_floors = {}) => direction = "IDLE"

\* C8: press_floor_button(f) for a floor f within bounds whose Button is not
\* stuck returns True, and afterwards f is pending and its Button is pressed.
PressRegistersRequest ==
    (pc = "idle" /\ op = "press_floor_button" /\ arg >= MinFloors
        /\ arg <= MaxFloors /\ ~is_stuck[arg]) =>
        /\ ret = "True"
        /\ arg \in requested_floors
        /\ is_pressed[arg]

\* an accepted press of a floor other than the car's, while the car is going
\* somewhere
PressRegistersRequestWitness ==
    /\ op = "press_floor_button"
    /\ ret = "True"
    /\ arg \in requested_floors
    /\ arg # current_floor
    /\ is_pressed[arg]
    /\ prev_direction # "IDLE"

\* C9: pressing a floor whose Button is stuck, by Button.press or by
\* press_floor_button, fails and changes neither that Button's pressed flag
\* nor the RequestSet, the direction, the current floor or the door.
StuckPressChangesNothing ==
    [][(/\ pc = "idle"
        /\ op' \in {"press_floor_button", "Button.press"}
        /\ arg' \in Floors
        /\ is_stuck[arg']) =>
            /\ ret' = "False"
            /\ UNCHANGED <<is_pressed, is_stuck, requested_floors, direction,
                           current_floor, door_state>>
    ]_vars

\* a refused press of a stuck Button that was pressed before it got stuck
StuckPressWitness ==
    /\ op = "press_floor_button"
    /\ arg \in Floors
    /\ is_stuck[arg]
    /\ is_pressed[arg]
    /\ arg \in requested_floors
    /\ ret = "False"

\* C10: press_floor_button(f) with f below min_floors or above max_floors
\* returns False and changes nothing of the elevator.
OutOfBoundsPressRejected ==
    [][(/\ pc = "idle"
        /\ op' = "press_floor_button"
        /\ (arg' < MinFloors \/ arg' > MaxFloors)) =>
            /\ ret' = "False"
            /\ UNCHANGED elev
    ]_vars

\* a refused press of the floor above the top one, with a request pending
OutOfBoundsPressWitness ==
    /\ op = "press_floor_button"
    /\ arg > MaxFloors
    /\ ret = "False"
    /\ requested_floors # {}

\* C11: add_random_stop adds at most one floor, never the current floor, only
\* a floor within the bounds, removes none, and never makes the RequestSet
\* larger than max_floors - min_floors.
RandomStopIsBounded ==
    [][(pc = "idle" /\ op' = "add_random_stop") =>
        /\ requested_floors \subseteq requested_floors'
        /\ Cardinality(requested_floors' \ requested_floors) <= 1
        /\ current_floor \notin requested_floors' \ requested_floors
        /\ \A f \in requested_floors' \ requested_floors :
               f >= MinFloors /\ f <= MaxFloors
        /\ requested_floors' # requested_floors =>
               Cardinality(requested_floors') <= MaxFloors - MinFloors
    ]_vars

\* a random stop that was added and filled the RequestSet up to its cap
RandomStopWitness ==
    /\ op = "add_random_stop"
    /\ arg \in requested_floors
    /\ ~is_pressed[arg]
    /\ arg # current_floor
    /\ Cardinality(requested_floors) = MaxFloors - MinFloors

\* C13: a process_next_request that selected floor t ends at floor t with the
\* door Closed, t no longer pending and its Button released; it takes t out
\* of the RequestSet in its clearing step and changes the RequestSet and the
\* Buttons nowhere else.
ServiceEndsAtTarget ==
    [][/\ (pc = "idle" /\ op' = "process_next_request") =>
              /\ requested_floors' = requested_floors
              /\ is_pressed' = is_pressed
       /\ (pc \notin {"idle", "clear"}) =>
              /\ requested_floors' = requested_floors
              /\ is_pressed' = is_pressed
       /\ pc = "clear" =>
              /\ target \in requested_floors
              /\ requested_floors' = requested_floors \ {target}
              /\ \A f \in Floors : is_pressed'[f] = (is_pressed[f] /\ f # target)
       /\ (pc # "idle" /\ pc' = "idle") =>
              /\ ret' = "True"
              /\ current_floor' = target
              /\ target \notin requested_floors'
              /\ ~is_pressed'[target]
              /\ door_state' = "CLOSED"
    ]_vars

\* a service has returned at a floor whose Button had been pressed, with
\* another floor still pending
ServiceEndsAtTargetWitness ==
    /\ pc = "idle"
    /\ op = "process_next_request"
    /\ ret = "True"
    /\ door_state = "CLOSED"
    /\ current_floor \notin requested_floors
    /\ ~is_pressed[current_floor]
    /\ \E f \in requested_floors : is_pressed[f]

\* C14: process_next_request returns False exactly when nothing was pending
\* at the call; otherwise (unless the policy raises) it selects a pending floor
\* other than the current one, moves there one floor at a time, takes exactly
\* one floor out of the RequestSet and returns True.
ReturnValueOfService ==
    [][/\ (pc = "idle" /\ op' = "process_next_request") =>
              /\ (ret' = "False") = (requested_floors = {})
              /\ ret' = "False" => pc' = "idle"
              /\ ret' \in {"False", "-", "RecursionError"}
              /\ ret' = "-" =>
                    /\ target' \in requested_floors
                    /\ target' # current_floor
                    /\ pc' = "move"
       /\ pc = "move" =>
              /\ current_floor' # current_floor
              /\ (current_floor' - target) * (current_floor' - target)
                     < (current_floor - target) * (current_floor - target)
       /\ pc = "clear" =>
              Cardinality(requested_floors') = Cardinality(requested_floors) - 1
       /\ (op' = "process_next_request" /\ ret' = "True" /\ ret # "True") =>
              /\ pc \in {"close", "closing"}
              /\ current_floor' = target
    ]_vars

\* a call that serviced a stop on the way down has returned True
ReturnValueWitness ==
    /\ pc = "idle"
    /\ op = "process_next_request"
    /\ ret = "True"
    /\ direction = "DOWN"
    /\ prev_direction = "UP"

\* C15: with nothing pending process_next_request returns False, sets the
\* direction to Idle and changes nothing else; the policy itself returns None.
NothingToDo ==
    [][/\ (pc = "idle" /\ op' = "process_next_request" /\ requested_floors = {}) =>
              /\ ret' = "False"
              /\ pc' = "idle"
              /\ direction' = "IDLE"
              /\ UNCHANGED <<current_floor, door_state, is_pressed, is_stuck,
                             requested_floors>>
       /\ (pc = "idle" /\ op' = "_get_next_floor" /\ requested_floors = {}) =>
              /\ ret' = "None"
              /\ target' = NoFloor
              /\ UNCHANGED <<current_floor, door_state, is_pressed, is_stuck,
                             requested_floors>>
    ]_vars

\* a call with nothing pending found the direction Up and left it Idle
NothingToDoWitness ==
    /\ pc = "idle"
    /\ op = "process_next_request"
    /\ ret = "False"
    /\ prev_direction = "UP"
    /\ direction = "IDLE"
    /\ requested_floors = {}

\* C16: the current floor is within [min_floors, max_floors] in every state,
\* the states in the middle of a movement included.
CurrentFloorInBounds ==
    current_floor >= MinFloors /\ current_floor <= MaxFloors

\* the car is passing a floor strictly between the bounds, on its way down
CurrentFloorWitness ==
    /\ pc = "move"
    /\ remaining > 0
    /\ direction = "DOWN"
    /\ current_floor > MinFloors
    /\ current_floor < MaxFloors

\* C20: a successful press_floor_button(f) sets the direction only when it
\* was Idle (Up if f is above the current floor, Down otherwise), and leaves
\* the current floor and the door as they were.
PressSetsInitialDirection ==
    [][(pc = "idle" /\ op' = "press_floor_button" /\ ret' = "True") =>
        /\ direction = "IDLE" /\ arg' > current_floor => direction' = "UP"
        /\ direction = "IDLE" /\ arg' <= current_floor => direction' = "DOWN"
        /\ direction # "IDLE" => direction' = direction
        /\ current_floor' = current_floor
        /\ door_state' = door_state
    ]_vars

\* a press of the car's own floor while Idle set the direction to Down
PressSetsInitialDirectionWitness ==
    /\ op = "press_floor_button"
    /\ ret = "True"
    /\ prev_direction = "IDLE"
    /\ arg = current_floor
    /\ direction = "DOWN"

\* C12: door.force_open() succeeds exactly when the door is Closing at the
\* call: it then sets the door Opening, and Open when it returns True; in any
\* other state it returns False and changes nothing.
ForceOpenContract ==
    [][/\ (pc = "idle" /\ op' = "door.force_open") =>
              IF door_state = "CLOSING"
              THEN door_state' = "OPENING" /\ ret' = "-" /\ pc' = "door_force"
              ELSE ret' = "False" /\ pc' = "idle" /\ UNCHANGED elev
       /\ (pc = "door_force" /\ pc' = "idle" /\ ret' # "KeyboardInterrupt") =>
              /\ prev_door = "CLOSING"
              /\ door_state = "OPENING"
              /\ door_state' = "OPEN"
              /\ ret' = "True"
       /\ (op' = "door.force_open" /\ ret' = "True" /\ ret # "True") =>
              pc = "door_force"
    ]_vars

\* force_open found the door Closing and has returned True with the door Open
ForceOpenWitness ==
    /\ pc = "idle"
    /\ op = "door.force_open"
    /\ prev_door = "CLOSING"
    /\ ret = "True"
    /\ door_state = "OPEN"

\* the door state changes the claim of C17 lists
ListedDoorChanges ==
    { <<"CLOSED", "OPENING">>, <<"OPENING", "OPEN">>, <<"OPEN", "CLOSING">>,
      <<"CLOSING", "CLOSED">>, <<"CLOSING", "OPENING">> }

\* open() on an Open door and close() on a Closed door change nothing
DoorNoOps ==
    /\ (pc = "idle" /\ op' = "door.open" /\ door_state = "OPEN") =>
           door_state' = "OPEN" /\ pc' = "idle"
    /\ (pc = "idle" /\ op' = "door.close" /\ door_state = "CLOSED") =>
           door_state' = "CLOSED" /\ pc' = "idle"

\* C17 as stated: the door starts Closed and every change of its state is
\* Closed->Opening, Opening->Open, Open->Closing, Closing->Closed or
\* Closing->Opening; open() on an Open door and close() on a Closed door
\* change nothing.
DoorChangesAsListed ==
    /\ door_state = "CLOSED"
    /\ [][/\ door_state' # door_state =>
                 <<door_state, door_state'>> \in ListedDoorChanges
          /\ DoorNoOps
       ]_vars

\* C17 amended: as above, with Opening->Closing (close() on a door that is
\* Opening) among the changes.
DoorChangesAmended ==
    /\ door_state = "CLOSED"
    /\ [][/\ door_state' # door_state =>
                 <<door_state, door_state'>> \in
                     ListedDoorChanges \cup { <<"OPENING", "CLOSING">> }
          /\ DoorNoOps
       ]_vars

\* close() found the door Opening and has closed it
DoorChangesWitness ==
    /\ pc = "idle"
    /\ op = "door.close"
    /\ prev_door = "OPENING"
    /\ ret = "None"
    /\ door_state = "CLOSED"

\* C19: the release-and-remove step for a floor whose Button is released and
\* which is not in the RequestSet raises nothing and leaves the RequestSet,
\* every Button, the current floor and the door state as they were.
ResolveTwice ==
    [][(/\ pc = "idle"
        /\ op' \in {"clear_request", "release_and_clear"}
        /\ arg' \notin requested_floors
        /\ ~is_pressed[arg']) =>
            /\ ret' = "None"
            /\ UNCHANGED <<requested_floors, is_pressed, current_floor, door_state>>
    ]_vars

\* a floor has been resolved twice in a row, the first time while it was
\* pending
ResolveTwiceWitness ==
    /\ pc = "idle"
    /\ op \in {"clear_request", "release_and_clear"}
    /\ Len(visited) = 2
    /\ visited[1] = arg
    /\ ret = "None"
    /\ arg \notin requested_floors
    /\ ~is_pressed[arg]
    /\ requested_floors # {}

\* C18: once no further request is submitted, repeated calls of
\* process_next_request lead to an empty RequestSet and the direction Idle.
ServiceCompletes ==
    (~accepting) ~> (requested_floors = {} /\ direction = "IDLE")

\* the service does complete from every state in which the car is not
\* standing at a pending floor
ServiceCompletesAwayFromCar ==
    (~accepting /\ current_floor \notin requested_floors) ~>
        (requested_floors = {} /\ direction = "IDLE")

\* C21: evaluated with the direction Idle and something pending, the policy
\* leaves the direction Up and returns the lowest pending floor above the car
\* if the lowest pending floor is above the car; otherwise it leaves the
\* direction Down and returns the highest pending floor below the car.
IdleResolution ==
    [][(DispatchStep /\ direction = "IDLE" /\ requested_floors # {}) =>
        /\ ret' \in {"Floor", "-"}
        /\ target' \in requested_floors
        /\ IF \A f \in requested_floors : f > current_floor
           THEN /\ direction' = "UP"
                /\ \A g \in requested_floors : target' <= g
           ELSE /\ direction' = "DOWN"
                /\ target' < current_floor
                /\ \A g \in requested_floors : g < current_floor => target' >= g
    ]_vars

\* the policy, called while Idle with pending floors on both sides of the
\* car, went Down
IdleResolutionWitness ==
    /\ op = "_get_next_floor"
    /\ prev_direction = "IDLE"
    /\ ret = "Floor"
    /\ direction = "DOWN"
    /\ target < current_floor
    /\ \E g \in requested_floors : g > current_floor

\* the direction of a travel from floor a to floor b
TravelDirection(a, b) == IF b > a THEN "UP" ELSE "DOWN"

\* floor f lies strictly ahead of floor c in direction d
Ahead(f, c, d) == IF d = "UP" THEN f > c ELSE f < c

\* a call of process_next_request selects the floor of the next service,
\* after an earlier service
NextServiceSelected ==
    /\ pc = "idle"
    /\ op' = "process_next_request"
    /\ ret' = "-"
    /\ visited # << >>

\* C22 as stated: the car leaves for a service in the direction opposite to
\* the one in which it travelled to the service before only if no pending
\* floor lies strictly ahead of it in the old direction when the floor is
\* selected.
ScanDiscipline ==
    [][NextServiceSelected =>
        LET old == TravelDirection(visited[1], current_floor)
            new == TravelDirection(current_floor, target') IN
        new # old =>
            ~\E f \in requested_floors : Ahead(f, current_floor, old)
    ]_vars

\* C22 amended: the same, for a selection made while the direction field
\* still is the direction of the last travel (the car has not been Idle and
\* the policy has not raised since the last service).
ScanDisciplineAmended ==
    [][NextServiceSelected =>
        LET old == TravelDirection(visited[1], current_floor)
            new == TravelDirection(current_floor, target') IN
        (new # old /\ direction = old) =>
            ~\E f \in requested_floors : Ahead(f, current_floor, old)
    ]_vars

\* the car came up to a floor strictly between the bounds and leaves it
\* downwards, the direction field having been Up at the selection
ScanDisciplineWitness ==
    /\ pc = "move"
    /\ op = "process_next_request"
    /\ visited # << >>
    /\ visited[1] = current_floor
    /\ prev_direction = "UP"
    /\ direction = "DOWN"
    /\ target < current_floor
    /\ current_floor > MinFloors

\* C23: an evaluation of the dispatch policy that returns leaves the current
\* floor, the RequestSet, every Button and the door as they were; only the
\* direction may differ.
PolicyChangesOnlyDirection ==
    [][(pc = "idle" /\ op' = "_get_next_floor" /\ ret' # "RecursionError") =>
        UNCHANGED <<current_floor, requested_floors, is_pressed, is_stuck,
                    door_state>>
    ]_vars

\* an evaluation returned a pending floor whose Button is pressed and
\* changed the direction
PolicyChangesOnlyDirectionWitness ==
    /\ op = "_get_next_floor"
    /\ ret = "Floor"
    /\ direction # prev_direction
    /\ prev_direction # "IDLE"
    /\ target \in requested_floors
    /\ is_pressed[target]

MoveToFloorContract ==
    [][/\ (pc = "idle" /\ op' = "move_to_floor" /\ arg' = current_floor) =>
              /\ pc' = "idle"
              /\ ret' = "None"
              /\ UNCHANGED elev
       /\ (pc = "idle" /\ op' = "move_to_floor" /\ arg' # current_floor) =>
              /\ direction' = IF arg' > current_floor THEN "UP" ELSE "DOWN"
              /\ pc' = "moving"
              /\ remaining' = Distance(arg', current_floor)
              /\ UNCHANGED <<current_floor, door_state, requested_floors,
                             is_pressed, is_stuck>>
       /\ pc = "moving" =>
              /\ Distance(current_floor', current_floor) = 1
              /\ Distance(current_floor', arg) = Distance(current_floor, arg) - 1
              /\ Distance(current_floor', arg) = remaining'
              /\ direction' = direction
              /\ (pc' = "idle") = (current_floor' = arg)
              /\ UNCHANGED <<door_state, requested_floors, is_pressed, is_stuck>>
    ]_vars

\* move_to_floor has brought the car from the top floor down to the bottom
\* floor, the direction having been Up at the call
MoveToFloorWitness ==
    /\ pc = "idle"
    /\ op = "move_to_floor"
    /\ ret = "None"
    /\ visited = <<MaxFloors>>
    /\ arg = MinFloors
    /\ current_floor = MinFloors
    /\ prev_direction = "UP"
    /\ direction = "DOWN"

\* C26: press_floor_button(f) for a floor f that is pending and whose Button
\* is not stuck returns True and leaves the RequestSet, every pressed flag,
\* the direction, the current floor and the door as they were.
RepeatedPressChangesNothing ==
    [][(/\ pc = "idle"
        /\ op' = "press_floor_button"
        /\ arg' \in requested_floors
        /\ ~is_stuck[arg']) =>
            /\ ret' = "True"
            /\ UNCHANGED <<requested_floors, is_pressed, direction,
                           current_floor, door_state>>
    ]_vars

\* C27: with calls of press_floor_button, process_next_request,
\* add_random_stop and door.force_open, every step that changes the current
\* floor starts and ends with the door Closed.
MovesOnlyWhenClosed ==
    [][current_floor' # current_floor =>
          door_state = "CLOSED" /\ door_state' = "CLOSED"]_vars

\* the car is on its way with the door Closed, one floor from where
\* force_open was last called and one floor from where it is going
MovesOnlyWhenClosedWitness ==
    /\ pc = "move"
    /\ op = "process_next_request"
    /\ visited # << >>
    /\ Distance(current_floor, visited[1]) = 1
    /\ remaining = 1
    /\ door_state = "CLOSED"

\* C28: with calls made one after the other and run to completion, the door
\* is Closed or Open between two calls, never Opening or Closing, and
\* door.force_open() made between two calls returns False and changes nothing.
SerialDoorSettled ==
    /\ [](pc = "idle" => door_state \in {"CLOSED", "OPEN"})
    /\ [][(pc = "idle" /\ op' = "door.force_open") =>
              /\ ret' = "False"
              /\ pc' = "idle"
              /\ UNCHANGED elev
       ]_vars

\* force_open, called with the door Open and a request pending, has returned
\* False
SerialDoorSettledWitness ==
    /\ pc = "idle"
    /\ op = "door.force_open"
    /\ ret = "False"
    /\ prev_door = "OPEN"
    /\ door_state = "OPEN"
    /\ requested_floors # {}

====
